---- MODULE Spec2Model ----
(***************************************************************************)
(* Model of herohde/transcribe: cmd/transcribe/main.go (main, process) and *)
(* pkg/util/storagex (NewBucket, TryDeleteBucket, UploadFile,              *)
(* TryDeleteObject).                                                       *)
(*                                                                         *)
(* Strings are sequences of one-character strings so that ToLower,         *)
(* HasSuffix, Base and Join are computed, not assumed.  Each blocking call *)
(* into the file system, the storage service, the speech service or the    *)
(* sox subprocess is one step of the goroutine that makes it; its outcome  *)
(* (nil or error) is chosen by the environment.                            *)
(***************************************************************************)
EXTENDS Integers, Sequences, FiniteSets, TLC

\* Longest command line (number of file arguments) explored.
MaxFiles == 2

\* Largest number of phrases and longest phrase given to PostProcess.
MaxPhrases == 2
MaxPhraseLen == 2

----------------------------------------------------------------------------
\* Inputs: the file arguments the command line may hold.

\* "a/x.wav"
PathAX == <<"a", "/", "x", ".", "w", "a", "v">>
\* "X.WAV": its base name differs from x.wav by case only
PathUX == <<"X", ".", "W", "A", "V">>
\* "y.mp3": not a supported format
PathY == <<"y", ".", "m", "p", "3">>

\* A list may name the same path more than once.
Paths == {PathAX, PathUX, PathY}

ArgLists == UNION {[1..n -> Paths] : n \in 0..MaxFiles}

\* ".wav", the suffix main requires
WavSuffix == <<".", "w", "a", "v">>
\* ".txt", appended to the base name to form the output name
TxtSuffix == <<".", "t", "x", "t">>
\* value of the -out flag (a directory named "o")
output == <<"o">>
\* os.TempDir()
TempDir == <<"/", "t">>
\* "tmp/audio", the object prefix
ObjectPrefix == <<"t", "m", "p", "/", "a", "u", "d", "i", "o">>
\* the generated name "transcribe-<UnixNano>" of a transient bucket
TmpBucketName == "transcribe-1"

----------------------------------------------------------------------------
\* String functions used by main and process.

LowerChar(c) ==
    CASE c = "A" -> "a"
      [] c = "V" -> "v"
      [] c = "W" -> "w"
      [] c = "X" -> "x"
      [] OTHER -> c

ToLower(s) == [i \in 1..Len(s) |-> LowerChar(s[i])]

HasSuffix(s, suffix) ==
    /\ Len(s) >= Len(suffix)
    /\ SubSeq(s, Len(s) - Len(suffix) + 1, Len(s)) = suffix

LastSlash(s) ==
    LET idx == {i \in 1..Len(s) : s[i] = "/"}
    IN  IF idx = {} THEN 0 ELSE CHOOSE i \in idx : \A j \in idx : j <= i

\* filepath.Base for paths that are non-empty and do not end in a slash
Base(s) == SubSeq(s, LastSlash(s) + 1, Len(s))

\* filepath.Join / path.Join of two clean, non-empty elements
Join(dir, name) == dir \o <<"/">> \o name

\* line 63: strings.HasSuffix(strings.ToLower(file), ".wav")
AnyFormat(file) == TRUE
Supported(file) == HasSuffix(ToLower(file), WavSuffix)

\* out := filepath.Join(*output, filepath.Base(file)+".txt")
OutPath(file) == Join(output, Base(file) \o TxtSuffix)

\* tmp := filepath.Join(os.TempDir(), name)
TmpPath(file) == Join(TempDir, Base(file))

\* object := path.Join("tmp/audio", strings.ToLower(name))
ObjectKey(file) == Join(ObjectPrefix, ToLower(Base(file)))

\* The output paths main can examine for the arguments a.
OutPathsOf(a) == {OutPath(a[k]) : k \in {j \in 1..Len(a) : Supported(a[j])}}

----------------------------------------------------------------------------
VARIABLES
    args,         \* flag.Args()
    project,      \* *project
    flagBucket,   \* value of -bucket on the command line
    bucket,       \* *bucket (overwritten when a transient bucket is made)
    mono,         \* *mono
    fs,           \* local files: path -> writer (0: there before the run)
    denied,       \* output paths whose Stat fails with an error other than ENOENT
    objects,      \* staged objects in the bucket: key -> the item that
                  \* uploaded it, and whether a deletion of it has failed
    bucketExists, \* the transient bucket exists remotely
    mainpc,       \* position of main
    fi,           \* index of the filtering loop
    files,        \* main's files slice
    statLog,      \* result of os.Stat for each argument examined, in order
    cl,           \* storage client: "none" (not requested), "ok", "err"
    scl,          \* speech client: "none", "ok", "err"
    mainDefers,   \* main's stack of deferred calls
    bucketInserts,\* number of Buckets.Insert calls
    bucketDeletes,\* number of Buckets.Delete calls
    failures,     \* the shared failure counter
    wg,           \* the WaitGroup counter
    item,         \* the launched goroutines, in launch order
    exitCode,     \* -1 while running, else the process exit status
    exitAt,       \* which statement ended the process
    phrases,      \* PostProcess: the phrases given to it
    data,         \* PostProcess: the text it returns for phrases
    again,        \* PostProcess: the text it returns for <<data>>
    stage         \* PostProcess: "off", "start", "once", "twice"

vars == <<args, project, flagBucket, bucket, mono, fs, denied, objects,
          bucketExists, mainpc, fi, files, statLog, cl, scl, mainDefers,
          bucketInserts, bucketDeletes, failures, wg, item, exitCode, exitAt,
          phrases, data, again, stage>>

inputVars == <<args, project, flagBucket, mono, denied>>
textVars == <<phrases, data, again, stage>>
filterVars == <<fi, files, statLog>>
clientVars == <<cl, scl>>
bucketVars == <<bucket, bucketExists, mainDefers, bucketInserts, bucketDeletes>>
exitVars == <<exitCode, exitAt>>

----------------------------------------------------------------------------
\* Helpers on the state.

\* defer: the call deferred last runs first
Enqueue(stack, x) == stack \o <<x>>
Push(stack, x) == <<x>> \o stack

WriteFile(f, path, who) == (path :> who) @@ f

\* Objects.Insert by item i: a new object, replacing any under the same key
Staged(i) == [by |-> i, undeleted |-> FALSE]

\* Objects.Delete returned an error: the object under key, if any, stays
Undeleted(f, key) ==
    IF key \in DOMAIN f THEN [f EXCEPT ![key].undeleted = TRUE] ELSE f

\* removing key from f: Objects.Delete on the bucket, os.Remove on the disk
KeepAll(f, key) == f
Without(f, key) == [p \in (DOMAIN f) \ {key} |-> f[p]]

Count(seq, x) == Cardinality({k \in 1..Len(seq) : seq[k] = x})

\* os.Stat(out): nil, ENOENT or another error
Stat(path) ==
    IF path \in denied THEN "EACCES"
    ELSE IF path \in DOMAIN fs THEN "nil"
    ELSE "ENOENT"

\* line 69: err == nil || !os.IsNotExist(err)
OnlyOtherErrors(res) == res # "nil" /\ res # "ENOENT"
OnlyIfExists(res) == res = "nil"
AlreadyTranscribed(res) == res = "nil" \/ res # "ENOENT"

\* line 76: len(files) == 0
NeverNothing(fl) == FALSE
NothingToDo(fl) == Len(fl) = 0

\* line 93: *bucket == ""
AlwaysTmpBucket(b) == TRUE
NeedTmpBucket(b) == b = ""

\* line 123: atomic.AddInt32(&failures, 1)
StoreInt32(v, delta) == delta
AtomicAddInt32(v, delta) == v + delta

\* line 114: wg.Done()
WgDoneMissing(w) == w
WgDone(w) == w - 1

\* line 130: wg.Wait() returns once the counter is zero
NoWait(w) == TRUE
WaitReturns(w) == w = 0

\* line 132: failures > 0
MoreThanOneFailure(f) == f > 1
AnyFailures(f) == f > 0

\* log.Fatal / log.Fatalf: print, then os.Exit(1); deferred calls do not run
ReturnQuietly(at) ==
    /\ mainpc' = "exited"
    /\ exitCode' = 0
    /\ exitAt' = at
Fatal(at) ==
    /\ mainpc' = "exited"
    /\ exitCode' = 1
    /\ exitAt' = at

\* main returns with no deferred call left: exit status 0
Exit0(at) ==
    /\ mainpc' = "exited"
    /\ exitCode' = 0
    /\ exitAt' = at

----------------------------------------------------------------------------
\* pkg/transcribe: PostProcess

\* The characters of the phrases: a letter, a space, a newline
Alphabet == {"a", " ", "\n"}

PhraseSet == UNION {[1..n -> Alphabet] : n \in 0..MaxPhraseLen}

PhraseLists == UNION {[1..n -> PhraseSet] : n \in 0..MaxPhrases}

\* strings.Join(elems, sep)
RECURSIVE StringsJoin(_, _)
StringsJoin(elems, sep) ==
    IF Len(elems) = 0 THEN <<>>
    ELSE IF Len(elems) = 1 THEN elems[1]
    ELSE elems[1] \o sep \o StringsJoin(Tail(elems), sep)

\* strings.Replace(s, old, new, -1) for a non-empty old: the occurrences of
\* old are found from left to right, without overlap, in one pass
RECURSIVE StringsReplace(_, _, _)
StringsReplace(s, old, new) ==
    IF Len(s) < Len(old) THEN s
    ELSE IF SubSeq(s, 1, Len(old)) = old
         THEN new \o StringsReplace(SubSeq(s, Len(old) + 1, Len(s)), old, new)
         ELSE <<Head(s)>> \o StringsReplace(Tail(s), old, new)

\* transcribe.PostProcess
PostProcessNewlineFirst(p) ==
    StringsReplace(StringsReplace(StringsJoin(p, <<" ">>),
                                  <<"\n", " ">>, <<"\n">>),
                   <<" ", " ">>, <<" ">>)
PostProcess(p) ==
    StringsReplace(StringsReplace(StringsJoin(p, <<" ">>),
                                  <<" ", " ">>, <<" ">>),
                   <<"\n", " ">>, <<"\n">>)

----------------------------------------------------------------------------
\* The state of main before it runs, for the inputs given
InitMain ==
    /\ args \in ArgLists
    /\ project \in {"", "p"}
    /\ flagBucket \in {"", "b"}
    /\ bucket = flagBucket
    /\ mono \in BOOLEAN
    /\ \E present \in SUBSET OutPathsOf(args) :
         /\ fs = [p \in present |-> 0]
         /\ denied \in SUBSET (OutPathsOf(args) \ present)
    /\ objects = <<>>
    /\ bucketExists = FALSE
    /\ mainpc = "validate"
    /\ fi = 1
    /\ files = <<>>
    /\ statLog = <<>>
    /\ cl = "none"
    /\ scl = "none"
    /\ mainDefers = <<>>
    /\ bucketInserts = 0
    /\ bucketDeletes = 0
    /\ failures = 0
    /\ wg = 0
    /\ item = <<>>
    /\ exitCode = -1
    /\ exitAt = "running"

\* PostProcess is not under study
TextOff ==
    /\ phrases = <<>>
    /\ data = <<>>
    /\ again = <<>>
    /\ stage = "off"

Init == InitMain /\ TextOff

----------------------------------------------------------------------------
\* main

\* (1) Validate input: lines 52-59
Validate ==
    /\ mainpc = "validate"
    /\ IF Len(args) = 0 THEN Fatal("nofiles")
       ELSE IF project = "" THEN Fatal("noproject")
       ELSE mainpc' = "filter" /\ UNCHANGED exitVars
    /\ UNCHANGED <<textVars, inputVars, filterVars, clientVars, bucketVars, fs, objects,
                   failures, wg, item>>

\* One iteration of the loop of lines 62-75
Filter ==
    /\ mainpc = "filter"
    /\ fi <= Len(args)
    /\ LET file == args[fi]
           res == Stat(OutPath(file))
       IN  IF ~Supported(file)
           THEN /\ Fatal("badformat")
                /\ UNCHANGED filterVars
           ELSE /\ statLog' = Append(statLog, res)
                /\ files' = IF AlreadyTranscribed(res) THEN files
                            ELSE Append(files, file)
                /\ fi' = fi + 1
                /\ UNCHANGED <<mainpc, exitVars>>
    /\ UNCHANGED <<textVars, inputVars, clientVars, bucketVars, fs, objects, failures,
                   wg, item>>

\* End of the loop and lines 76-78
FilterDone ==
    /\ mainpc = "filter"
    /\ fi > Len(args)
    /\ IF NothingToDo(files) THEN Exit0("nothing")
       ELSE mainpc' = "gcsclient" /\ UNCHANGED exitVars
    /\ UNCHANGED <<textVars, inputVars, filterVars, clientVars, bucketVars, fs, objects,
                   failures, wg, item>>

\* (2) lines 82-85: storagex.NewClient
NewStorageClient ==
    /\ mainpc = "gcsclient"
    /\ \E ok \in BOOLEAN :
         IF ok THEN /\ cl' = "ok"
                    /\ mainpc' = "speechclient"
                    /\ UNCHANGED exitVars
         ELSE /\ cl' = "err"
              /\ Fatal("gcsclient")
    /\ UNCHANGED <<textVars, inputVars, filterVars, scl, bucketVars, fs, objects,
                   failures, wg, item>>

\* lines 86-89: speech.NewClient
NewSpeechClient ==
    /\ mainpc = "speechclient"
    /\ \E ok \in BOOLEAN :
         IF ok THEN /\ scl' = "ok"
                    /\ mainpc' = "bucket"
                    /\ UNCHANGED exitVars
         ELSE /\ scl' = "err"
              /\ Fatal("speechclient")
    /\ UNCHANGED <<textVars, inputVars, filterVars, cl, bucketVars, fs, objects,
                   failures, wg, item>>

\* (3) lines 93-102: create the transient bucket, if needed
TmpBucket ==
    /\ mainpc = "bucket"
    /\ IF NeedTmpBucket(bucket)
       THEN /\ bucket' = TmpBucketName
            /\ bucketInserts' = bucketInserts + 1
            /\ \E ok \in BOOLEAN :
                 IF ok THEN /\ bucketExists' = TRUE
                            /\ mainDefers' = Push(mainDefers, "TryDeleteBucket")
                            /\ mainpc' = "dispatch"
                            /\ UNCHANGED exitVars
                 ELSE /\ Fatal("newbucket")
                      /\ UNCHANGED <<bucketExists, mainDefers>>
            /\ UNCHANGED bucketDeletes
       ELSE /\ mainpc' = "dispatch"
            /\ UNCHANGED <<bucketVars, exitVars>>
    /\ UNCHANGED <<textVars, inputVars, filterVars, clientVars, fs, objects, failures,
                   wg, item>>

\* The goroutine as the go statement of line 113 creates it
NewItem(filename) ==
    [file   |-> filename,
     src    |-> filename,
     pc     |-> IF mono THEN "sox" ELSE "upload",
     defers |-> <<>>,
     calls  |-> <<>>,
     opened |-> <<>>,
     ran    |-> <<>>,
     ret    |-> "none",
     sox    |-> "none",
     up     |-> "none",
     sub    |-> "none",
     wr     |-> "none"]

\* (4) lines 111-129: wg.Add(1); go func(filename)
Go ==
    /\ mainpc = "dispatch"
    /\ Len(item) < Len(files)
    /\ wg' = wg + 1
    /\ item' = Append(item, NewItem(files[Len(item) + 1]))
    /\ UNCHANGED <<textVars, inputVars, filterVars, clientVars, bucketVars, fs, objects,
                   failures, mainpc, exitVars>>

\* line 130: wg.Wait()
Wait ==
    /\ mainpc = "dispatch"
    /\ Len(item) = Len(files)
    /\ WaitReturns(wg)
    /\ mainpc' = "check"
    /\ UNCHANGED <<textVars, inputVars, filterVars, clientVars, bucketVars, fs, objects,
                   failures, wg, item, exitVars>>

\* lines 132-135
Check ==
    /\ mainpc = "check"
    /\ IF AnyFailures(failures) THEN Fatal("failures")
       ELSE mainpc' = "return" /\ UNCHANGED exitVars
    /\ UNCHANGED <<textVars, inputVars, filterVars, clientVars, bucketVars, fs, objects,
                   failures, wg, item>>

\* line 136: main returns; the deferred TryDeleteBucket (line 99) runs
Return ==
    /\ mainpc = "return"
    /\ IF mainDefers = <<>>
       THEN /\ Exit0("done")
            /\ UNCHANGED bucketVars
       ELSE /\ mainDefers' = Tail(mainDefers)
            /\ bucketDeletes' = bucketDeletes + 1
            /\ \E ok \in BOOLEAN : bucketExists' = (bucketExists /\ ~ok)
            /\ UNCHANGED <<bucket, bucketInserts, mainpc, exitVars>>
    /\ UNCHANGED <<textVars, inputVars, filterVars, clientVars, fs, objects, failures,
                   wg, item>>

----------------------------------------------------------------------------
\* process, run by goroutine i

\* process has chosen its return value: its deferred calls run next
RetryUpload(defers) == IF defers = <<>> THEN "upload" ELSE "defer"
AfterReturn(defers) == IF defers = <<>> THEN "report" ELSE "defer"

\* line 150: defer os.Remove(tmp)
DeferRemove(defers, ok) == IF ok THEN Push(defers, "os.Remove") ELSE defers

\* line 161: defer storagex.TryDeleteObject(cl, bucket, object)
NoDeferDelete(defers, ok) == defers
DeferDeleteFirst(defers, ok) == Push(defers, "TryDeleteObject")
DeferDelete(defers, ok) == IF ok THEN Push(defers, "TryDeleteObject") ELSE defers

Running(i) == i \in DOMAIN item /\ mainpc # "exited"

\* lines 141-153: sox filename tmp remix 1-2
Convert(i) ==
    /\ Running(i)
    /\ item[i].pc = "sox"
    /\ \E ok \in BOOLEAN, leaves \in BOOLEAN :
         LET tmp == TmpPath(item[i].file)
             d   == DeferRemove(item[i].defers, ok)
         IN  /\ ok => leaves
             /\ fs' = IF leaves THEN WriteFile(fs, tmp, i) ELSE fs
             /\ item' = [item EXCEPT ![i] =
                   IF ok THEN [@ EXCEPT !.sox = "ok", !.src = tmp,
                                        !.calls = Append(@, "sox"),
                                        !.defers = d, !.pc = "upload"]
                   ELSE [@ EXCEPT !.sox = "err", !.ret = "err", !.defers = d,
                                  !.calls = Append(@, "sox"),
                                  !.pc = AfterReturn(d)]]
    /\ UNCHANGED <<textVars, inputVars, filterVars, clientVars, bucketVars, objects,
                   failures, wg, mainpc, exitVars>>

\* os.Open(filename) in UploadFile can succeed: a converted file must exist
CanOpen(i) == item[i].sox = "ok" => item[i].src \in DOMAIN fs

\* lines 157-161 and storagex.UploadFile
Upload(i) ==
    /\ Running(i)
    /\ item[i].pc = "upload"
    /\ \E ok \in BOOLEAN :
         LET d == DeferDelete(item[i].defers, ok)
         IN  /\ ok => CanOpen(i)
             /\ objects' = IF ok
                           THEN (ObjectKey(item[i].file) :> Staged(i))
                                    @@ objects
                           ELSE objects
             /\ item' = [item EXCEPT ![i] =
                   IF ok THEN [@ EXCEPT !.up = "ok", !.defers = d,
                                        !.calls = Append(@, "upload"),
                                        !.opened = item[i].src,
                                        !.pc = "submit"]
                   ELSE [@ EXCEPT !.up = "err", !.ret = "err", !.defers = d,
                                  !.calls = Append(@, "upload"),
                                  !.opened = item[i].src,
                                  !.pc = AfterReturn(d)]]
    /\ UNCHANGED <<textVars, inputVars, filterVars, clientVars, bucketVars, fs,
                   failures, wg, mainpc, exitVars>>

\* lines 167-171: transcribe.Submit, blocking; needs the staged object
Submit(i) ==
    /\ Running(i)
    /\ item[i].pc = "submit"
    /\ \E ok \in BOOLEAN :
         /\ ok => ObjectKey(item[i].file) \in DOMAIN objects
         /\ item' = [item EXCEPT ![i] =
               IF ok THEN [@ EXCEPT !.sub = "ok", !.pc = "write",
                                    !.calls = Append(@, "submit")]
               ELSE [@ EXCEPT !.sub = "err", !.ret = "err",
                              !.calls = Append(@, "submit"),
                              !.pc = AfterReturn(item[i].defers)]]
    /\ UNCHANGED <<textVars, inputVars, filterVars, clientVars, bucketVars, fs, objects,
                   failures, wg, mainpc, exitVars>>

\* lines 178-181: ioutil.WriteFile(output, data, 0644); a failed WriteFile
\* is one that could not create the file
Write(i) ==
    /\ Running(i)
    /\ item[i].pc = "write"
    /\ \E ok \in BOOLEAN :
         /\ fs' = IF ok THEN WriteFile(fs, OutPath(item[i].file), i) ELSE fs
         /\ item' = [item EXCEPT ![i] =
               [@ EXCEPT !.wr = IF ok THEN "ok" ELSE "err",
                         !.ret = IF ok THEN "nil" ELSE "err",
                         !.calls = Append(@, "write"),
                         !.pc = AfterReturn(item[i].defers)]]
    /\ UNCHANGED <<textVars, inputVars, filterVars, clientVars, bucketVars, objects,
                   failures, wg, mainpc, exitVars>>

\* An error of a deferred cleanup is logged (TryDeleteObject) or dropped
\* (os.Remove): the value process returns stays what it was
EscalateCleanup(ret, ok) == IF ok THEN ret ELSE "err"
CleanupResult(ret, ok) == ret

\* storagex.TryDeleteObject: Objects.Delete, any error only logged
TryDeleteObject(i, ok) ==
    /\ ok => ObjectKey(item[i].file) \in DOMAIN objects
    /\ objects' = IF ok THEN Without(objects, ObjectKey(item[i].file))
                  ELSE Undeleted(objects, ObjectKey(item[i].file))
    /\ UNCHANGED fs

\* os.Remove(tmp), result ignored
OsRemove(i, ok) ==
    /\ ok => TmpPath(item[i].file) \in DOMAIN fs
    /\ fs' = IF ok THEN Without(fs, TmpPath(item[i].file)) ELSE fs
    /\ UNCHANGED objects

\* process returns: the deferred calls run, last deferred first
RunDeferred(i) ==
    /\ Running(i)
    /\ item[i].pc = "defer"
    /\ LET call == Head(item[i].defers)
           rest == Tail(item[i].defers)
       IN  \E ok \in BOOLEAN :
             /\ IF call = "TryDeleteObject" THEN TryDeleteObject(i, ok)
                ELSE OsRemove(i, ok)
             /\ item' = [item EXCEPT ![i] =
                   [@ EXCEPT !.defers = rest, !.ran = Append(@, call),
                             !.ret = CleanupResult(@, ok),
                             !.pc = AfterReturn(rest)]]
    /\ UNCHANGED <<textVars, inputVars, filterVars, clientVars, bucketVars, failures,
                   wg, mainpc, exitVars>>

\* lines 114-127: the goroutine logs the outcome, counts a failure
\* (atomic.AddInt32) and returns, which runs the deferred wg.Done()
Finish(i) ==
    /\ Running(i)
    /\ item[i].pc = "report"
    /\ failures' = IF item[i].ret = "err" THEN AtomicAddInt32(failures, 1)
                   ELSE failures
    /\ wg' = WgDone(wg)
    /\ item' = [item EXCEPT ![i].pc = "end"]
    /\ UNCHANGED <<textVars, inputVars, filterVars, clientVars, bucketVars, fs, objects,
                   mainpc, exitVars>>

----------------------------------------------------------------------------
Next ==
    \/ Validate
    \/ Filter
    \/ FilterDone
    \/ NewStorageClient
    \/ NewSpeechClient
    \/ TmpBucket
    \/ Go
    \/ Wait
    \/ Check
    \/ Return
    \/ \E i \in 1..MaxFiles : Convert(i)
    \/ \E i \in 1..MaxFiles : Upload(i)
    \/ \E i \in 1..MaxFiles : Submit(i)
    \/ \E i \in 1..MaxFiles : Write(i)
    \/ \E i \in 1..MaxFiles : RunDeferred(i)
    \/ \E i \in 1..MaxFiles : Finish(i)

Spec == Init /\ [][Next]_vars

----------------------------------------------------------------------------
\* Scheduling: main and every goroutine keep running while they can, and
\* every call they make returns.

MainStep ==
    \/ Validate
    \/ Filter
    \/ FilterDone
    \/ NewStorageClient
    \/ NewSpeechClient
    \/ TmpBucket
    \/ Go
    \/ Wait
    \/ Check
    \/ Return

ItemStep(i) ==
    \/ Convert(i)
    \/ Upload(i)
    \/ Submit(i)
    \/ Write(i)
    \/ RunDeferred(i)
    \/ Finish(i)

FairSpec ==
    /\ Init
    /\ [][Next]_vars
    /\ WF_vars(MainStep)
    /\ \A i \in 1..MaxFiles : WF_vars(ItemStep(i))

----------------------------------------------------------------------------
\* PostProcess applied to a list of phrases, then to its own result.

\* main has not run: PostProcess is studied alone, on an empty command line
InitText ==
    /\ InitMain
    /\ args = <<>>
    /\ project = ""
    /\ flagBucket = ""
    /\ mono = FALSE
    /\ phrases \in PhraseLists
    /\ data = <<>>
    /\ again = <<>>
    /\ stage = "start"

\* data := transcribe.PostProcess(phrases)
ApplyOnce ==
    /\ stage = "start"
    /\ data' = PostProcess(phrases)
    /\ stage' = "once"
    /\ UNCHANGED <<phrases, again, inputVars, filterVars, clientVars,
                   bucketVars, fs, objects, failures, wg, item, mainpc,
                   exitVars>>

\* transcribe.PostProcess([]string{data})
ApplyTwice ==
    /\ stage = "once"
    /\ again' = PostProcess(<<data>>)
    /\ stage' = "twice"
    /\ UNCHANGED <<phrases, data, inputVars, filterVars, clientVars,
                   bucketVars, fs, objects, failures, wg, item, mainpc,
                   exitVars>>

NextText == ApplyOnce \/ ApplyTwice

SpecText == InitText /\ [][NextText]_vars

----------------------------------------------------------------------------
\* Vocabulary of the properties.

\* process has returned to goroutine i (all its deferred calls have run)
ProcessReturned(i) == item[i].pc \in {"report", "end"}

DeleteAttempts(i) == Count(item[i].ran, "TryDeleteObject")

RemoveAttempts(i) == Count(item[i].ran, "os.Remove")

Failed == {i \in DOMAIN item : item[i].ret = "err"}

\* main is past wg.Wait()
AfterJoin == mainpc \in {"check", "return"} \/ exitAt \in {"failures", "done"}

\* main made the bucket itself and NewBucket succeeded
RunOwnedBucket == flagBucket = "" /\ bucketInserts = 1 /\ exitAt # "newbucket"

----------------------------------------------------------------------------
\* C1: in every run that created its own bucket, exactly one bucket deletion
\* attempt has been made by the time the process exits, however many items
\* failed.  (Violated: log.Fatalf at line 133 exits without running the
\* deferred TryDeleteBucket.)
C1_OneBucketDeletionAtExit ==
    (mainpc = "exited" /\ RunOwnedBucket) => bucketDeletes = 1

\* C2: for every item, the staged object's deletion is attempted at most
\* once, never unless the upload succeeded, and exactly once by the time
\* process has returned when the upload succeeded, whatever Submit and the
\* output write did.
C2_StagedObjectDeletedOnce ==
    \A i \in DOMAIN item :
        /\ DeleteAttempts(i) <= 1
        /\ item[i].up # "ok" => DeleteAttempts(i) = 0
        /\ (ProcessReturned(i) /\ item[i].up = "ok") => DeleteAttempts(i) = 1

C2_Witness ==
    \E i \in DOMAIN item :
        /\ ProcessReturned(i)
        /\ item[i].up = "ok"
        /\ item[i].sub = "err"
        /\ DeleteAttempts(i) = 1

\* C3: with -mono, a removal of the item's temporary file has been performed
\* by the time process returns, on every exit path, the failure of sox
\* included.  (Violated: line 148 returns before line 150 defers os.Remove.)
C3_TempFileRemovedOnEveryPath ==
    mono => \A i \in DOMAIN item : ProcessReturned(i) => RemoveAttempts(i) >= 1

\* C4: the failure counter equals the number of goroutines that have
\* reported a failed pipeline; read after the join it is exactly the number
\* of dispatched items whose pipeline returned an error.
C4_FailureCountExact ==
    /\ failures = Cardinality({i \in Failed : item[i].pc = "end"})
    /\ AfterJoin => failures = Cardinality(Failed)

C4_Witness ==
    /\ mainpc = "check"
    /\ failures = 2
    /\ Cardinality(Failed) = 2

\* C5: once main is past the join, every file that survived filtering has
\* had its pipeline started and run to its own end, with a result of its
\* own, whatever the results of the others.
C5_SiblingsRunToCompletion ==
    AfterJoin =>
        /\ Len(item) = Len(files)
        /\ \A i \in DOMAIN item :
              /\ item[i].file = files[i]
              /\ item[i].pc = "end"
              /\ item[i].ret \in {"nil", "err"}

C5_Witness ==
    /\ exitAt = "failures"
    /\ \E i, j \in DOMAIN item :
          /\ i < j
          /\ item[i].ret = "err"
          /\ item[j].ret = "nil"
          /\ item[j].wr = "ok"

\* C6: when the process ends after the preconditions passed, its status is
\* non-zero exactly if some dispatched pipeline failed; it is zero when no
\* file survived filtering.
C6_ExitStatus ==
    (mainpc = "exited" /\ exitAt \in {"nothing", "failures", "done"}) =>
        /\ (exitCode # 0) <=> (Failed # {})
        /\ Len(files) = 0 => exitCode = 0
        /\ exitCode \in {0, 1}

C6_Witness ==
    /\ mainpc = "exited"
    /\ exitAt = "failures"
    /\ exitCode = 1
    /\ \E i \in DOMAIN item : item[i].ret = "nil"

\* C7: an argument whose output path existed when main examined it is not
\* in files and no goroutine ever works on that output path; the failure
\* counter counts launched goroutines only.
C7_ExistingOutputSkipped ==
    /\ \A k \in DOMAIN statLog :
          statLog[k] = "nil" =>
              /\ \A j \in DOMAIN files : OutPath(files[j]) # OutPath(args[k])
              /\ \A i \in DOMAIN item : OutPath(item[i].file) # OutPath(args[k])
    /\ failures <= Len(item)
    /\ Len(item) <= Len(files)

C7_Witness ==
    /\ mainpc = "exited"
    /\ \E k \in DOMAIN statLog : statLog[k] = "nil"
    /\ \E i \in DOMAIN item : item[i].wr = "ok"

\* C8: if some argument does not end in ".wav" (case-insensitively), no
\* client is ever requested, no bucket is made, no goroutine is launched,
\* and the process ends with a non-zero status, wherever that argument is.
C8_UnsupportedRejectedFirst ==
    (\E k \in DOMAIN args : ~HasSuffix(ToLower(args[k]), WavSuffix)) =>
        /\ cl = "none"
        /\ scl = "none"
        /\ bucketInserts = 0
        /\ item = <<>>
        /\ mainpc = "exited" => exitCode = 1

C8_Witness ==
    /\ exitAt = "badformat"
    /\ fi = 2
    /\ Len(files) = 1

\* C9: if filtering ends with no file left, the process ends at once with
\* status 0: no client requested, no bucket made or deleted, no goroutine
\* launched, no file written, no object staged.
C9_NothingToDoNoSideEffects ==
    (/\ Len(args) > 0
     /\ project # ""
     /\ fi > Len(args)
     /\ mainpc # "filter"
     /\ Len(files) = 0) =>
        /\ mainpc = "exited"
        /\ exitCode = 0
        /\ cl = "none"
        /\ scl = "none"
        /\ bucketInserts = 0
        /\ bucketDeletes = 0
        /\ item = <<>>
        /\ \A p \in DOMAIN fs : fs[p] = 0
        /\ objects = <<>>

C9_Witness ==
    /\ exitAt = "nothing"
    /\ Len(args) = 2
    /\ \A k \in DOMAIN statLog : statLog[k] = "nil"

\* C10: with a bucket named on the command line, main never calls
\* Buckets.Insert or Buckets.Delete, defers no deletion and keeps the name.
C10_CallerBucketUntouched ==
    flagBucket # "" =>
        /\ bucketInserts = 0
        /\ bucketDeletes = 0
        /\ mainDefers = <<>>
        /\ bucket = flagBucket

C10_Witness ==
    /\ flagBucket # ""
    /\ exitAt = "failures"
    /\ \E i \in DOMAIN item : item[i].up = "ok"

\* The steps of process in the order of the source
StepOrder == <<"sox", "upload", "submit", "write">>

\* Outcome recorded for a step of item i
Outcome(i, step) ==
    CASE step = "sox" -> item[i].sox
      [] step = "upload" -> item[i].up
      [] step = "submit" -> item[i].sub
      [] step = "write" -> item[i].wr

\* Some step of item i ended in an error
StepFailed(i) == \E k \in 1..Len(StepOrder) : Outcome(i, StepOrder[k]) = "err"

\* The items come from pairwise different arguments
DistinctFiles == \A i, j \in DOMAIN item : i # j => item[i].file # item[j].file

\* A precondition of main failed
PreconditionFailed ==
    \/ Len(args) = 0
    \/ project = ""
    \/ cl = "err"
    \/ scl = "err"
    \/ exitAt = "newbucket"

----------------------------------------------------------------------------
\* C11: no two goroutines of a run work on the same input file, also when
\* the argument list names a path more than once.  (Violated: the filtering
\* loop appends every occurrence whose output does not exist yet.)
C11_NoItemProcessedTwice ==
    \A i, j \in DOMAIN item : i # j => item[i].file # item[j].file

\* C12: for items of pairwise different files, what a pipeline has staged
\* or written and still uses is its own: the temp file it is about to
\* upload and the object it is about to submit are there and are the ones
\* it made.  (Violated: X.WAV and a/x.wav share the key tmp/audio/x.wav.)
C12_NoSharedResources ==
    DistinctFiles =>
        \A i \in DOMAIN item :
            /\ (item[i].pc = "upload" /\ item[i].sox = "ok") =>
                  /\ TmpPath(item[i].file) \in DOMAIN fs
                  /\ fs[TmpPath(item[i].file)] = i
            /\ item[i].pc = "submit" =>
                  /\ ObjectKey(item[i].file) \in DOMAIN objects
                  /\ objects[ObjectKey(item[i].file)].by = i

\* C14: the result of an item is decided by its steps alone (nil exactly if
\* the output was written, an error exactly if a step failed), the counter
\* counts exactly those errors and the exit status follows from them,
\* whatever the deferred deletions and removals returned.
C14_CleanupNeverEscalates ==
    /\ \A i \in DOMAIN item :
          /\ item[i].ret = "err" <=> StepFailed(i)
          /\ item[i].ret = "nil" <=> item[i].wr = "ok"
    /\ failures = Cardinality({i \in DOMAIN item :
                                  item[i].pc = "end" /\ StepFailed(i)})
    /\ (mainpc = "exited" /\ AfterJoin) =>
          exitCode = IF \E i \in DOMAIN item : StepFailed(i) THEN 1 ELSE 0

\* every cleanup of the run failed and the run still succeeded
C14_Witness ==
    /\ exitAt = "done"
    /\ exitCode = 0
    /\ Len(item) = 1
    /\ item[1].ran = <<"TryDeleteObject", "os.Remove">>
    /\ ObjectKey(item[1].file) \in DOMAIN objects
    /\ TmpPath(item[1].file) \in DOMAIN fs
    /\ bucketDeletes = 1
    /\ bucketExists

\* C15: whenever a deletion of the bucket has been attempted, every
\* surviving file has been launched and every goroutine has ended.
C15_BucketDeletedAfterJoin ==
    bucketDeletes > 0 =>
        /\ Len(item) = Len(files)
        /\ \A i \in DOMAIN item : item[i].pc = "end"

C15_Witness ==
    /\ bucketDeletes = 1
    /\ Len(item) = 2
    /\ \A i \in DOMAIN item : item[i].wr = "ok"

\* C16: the calls a pipeline has made are a prefix of sox (with -mono only),
\* upload, submit, write: each made at most once, in that order, each only
\* after all earlier ones succeeded; only the last call made can have
\* failed, and then process has an error as its result and makes no other
\* call; process returns nil only after all of them succeeded.
C16_StrictSequenceNoRetry ==
    \A i \in DOMAIN item :
        LET c == item[i].calls
            n == Len(item[i].calls)
            expected == IF mono THEN StepOrder ELSE Tail(StepOrder)
        IN  /\ n <= Len(expected)
            /\ c = SubSeq(expected, 1, n)
            /\ \A k \in 1..n :
                  Outcome(i, c[k]) = IF k < n THEN "ok"
                                     ELSE IF item[i].ret = "err" THEN "err"
                                     ELSE "ok"
            /\ \A k \in (n + 1)..Len(expected) :
                  Outcome(i, expected[k]) = "none"
            /\ item[i].ret = "err" =>
                  item[i].pc \in {"defer", "report", "end"}
            /\ item[i].ret = "nil" => n = Len(expected)

C16_Witness ==
    \E i \in DOMAIN item :
        /\ item[i].calls = <<"sox", "upload", "submit">>
        /\ item[i].sub = "err"
        /\ item[i].pc = "end"

\* C17: after a failed upload the pipeline has an error as its result, has
\* called neither Submit nor WriteFile, never attempts to delete a staged
\* object, and the only deferred call it runs is the removal of the
\* converted file, if the conversion ran.
C17_UploadFailure ==
    \A i \in DOMAIN item :
        item[i].up = "err" =>
            /\ item[i].ret = "err"
            /\ item[i].sub = "none"
            /\ item[i].wr = "none"
            /\ DeleteAttempts(i) = 0
            /\ "TryDeleteObject" \notin {item[i].defers[k] :
                                            k \in 1..Len(item[i].defers)}
            /\ ProcessReturned(i) =>
                  item[i].ran = IF item[i].sox = "ok" THEN <<"os.Remove">>
                                ELSE <<>>

C17_Witness ==
    \E i \in DOMAIN item :
        /\ item[i].up = "err"
        /\ item[i].sox = "ok"
        /\ ProcessReturned(i)
        /\ item[i].ran = <<"os.Remove">>

\* C18: once sox has succeeded, UploadFile opens the converted file, and by
\* the time process has returned exactly one removal of that file has been
\* performed, after the deletion attempt of the staged object if there is
\* one (there is one exactly if the upload succeeded).
C18_TempFileRemovedOnceLast ==
    \A i \in DOMAIN item :
        item[i].sox = "ok" =>
            /\ item[i].src = TmpPath(item[i].file)
            /\ item[i].up # "none" => item[i].opened = TmpPath(item[i].file)
            /\ RemoveAttempts(i) <= 1
            /\ ProcessReturned(i) =>
                  item[i].ran = IF item[i].up = "ok"
                                THEN <<"TryDeleteObject", "os.Remove">>
                                ELSE <<"os.Remove">>

C18_Witness ==
    \E i \in DOMAIN item :
        /\ item[i].sox = "ok"
        /\ item[i].wr = "err"
        /\ ProcessReturned(i)
        /\ item[i].ran = <<"TryDeleteObject", "os.Remove">>
        /\ item[i].opened = TmpPath(item[i].file)

\* C19: when a precondition fails (no files, no project, a client cannot be
\* made, the bucket cannot be made) main goes nowhere but to a non-zero
\* exit: no goroutine is launched and nothing is staged; without a project
\* no output path is examined and no client is requested.
C19_PreconditionFailure ==
    /\ PreconditionFailed =>
          /\ mainpc \in {"validate", "exited"}
          /\ mainpc = "exited" => exitCode = 1
          /\ item = <<>>
          /\ objects = <<>>
    /\ project = "" =>
          /\ statLog = <<>>
          /\ cl = "none"
          /\ scl = "none"

C19_Witness ==
    /\ exitAt = "newbucket"
    /\ exitCode = 1
    /\ Len(files) = 2
    /\ cl = "ok"
    /\ scl = "ok"

----------------------------------------------------------------------------
\* The text holds three spaces in a row
HasLongRun(s) ==
    \E k \in 1..(Len(s) - 2) : s[k] = " " /\ s[k + 1] = " " /\ s[k + 2] = " "

\* C13 as stated: PostProcess of its own result is that result, for every
\* list of phrases.  (Violated: strings.Replace makes one pass, so a run of
\* three spaces becomes two, which a second application shortens again.)
C13_PostProcessIdempotent ==
    stage = "twice" => again = data

\* C13 as amended: PostProcess of its own result is that result, for every
\* list of phrases whose text, joined with single spaces, holds no run of
\* three or more spaces.
C13_IdempotentWithoutLongRuns ==
    (stage = "twice" /\ ~HasLongRun(StringsJoin(phrases, <<" ">>))) =>
        again = data

\* "a ", "\n " joins to "a  \n ", which PostProcess turns into "a \n"
C13_Witness ==
    /\ stage = "twice"
    /\ phrases = << <<"a", " ">>, <<"\n", " ">> >>
    /\ ~HasLongRun(StringsJoin(phrases, <<" ">>))
    /\ data = <<"a", " ", "\n">>
    /\ again = data

\* C20: with main and every goroutine scheduled fairly and every call
\* returning, the process eventually has exited with every launched
\* goroutine at its end, each with one result (nil or an error); a goroutine
\* at its end never changes again; and main is never past the join while a
\* surviving file has not been launched or a goroutine has not ended.
C20_ItemsEndAndProcessExits ==
    /\ <>(/\ mainpc = "exited"
          /\ \A i \in DOMAIN item :
                item[i].pc = "end" /\ item[i].ret \in {"nil", "err"})
    /\ [][\A i \in DOMAIN item :
            item[i].pc = "end" => item'[i] = item[i]]_vars
    /\ [](AfterJoin => (/\ Len(item) = Len(files)
                        /\ \A i \in DOMAIN item : item[i].pc = "end"))

C20_Witness ==
    /\ mainpc = "exited"
    /\ Len(item) = 2
    /\ item[1].ret = "nil"
    /\ item[2].ret = "err"
    /\ item[2].sub = "err"

----------------------------------------------------------------------------
\* C21: in a run that made its own bucket, once the deletion of the bucket
\* has been attempted every goroutine has ended with no deferred call left,
\* every pipeline that uploaded has made its one attempt to delete its
\* staged object and no other has made any; an object that is still in the
\* bucket then is one whose deletion failed, so that the bucket is empty if
\* every deletion succeeded.
C21_ObjectDeletionsBeforeBucketDeletion ==
    (RunOwnedBucket /\ bucketDeletes > 0) =>
        /\ Len(item) = Len(files)
        /\ \A i \in DOMAIN item :
              /\ item[i].pc = "end"
              /\ item[i].defers = <<>>
              /\ DeleteAttempts(i) = IF item[i].up = "ok" THEN 1 ELSE 0
        /\ \A key \in DOMAIN objects : objects[key].undeleted

\* two pipelines staged under the same key, each made its deletion attempt,
\* and the bucket was empty when its deletion was attempted
C21_Witness ==
    /\ RunOwnedBucket
    /\ bucketDeletes = 1
    /\ Len(item) = 2
    /\ item[1].file # item[2].file
    /\ ObjectKey(item[1].file) = ObjectKey(item[2].file)
    /\ \A i \in DOMAIN item : item[i].sub = "ok" /\ DeleteAttempts(i) = 1
    /\ DOMAIN objects = {}

----------------------------------------------------------------------------
\* C22: a pipeline writes its output file only after its conversion (with
\* -mono), its upload and its Submit succeeded, and an item that failed at
\* one of these steps has no file at its output path, so that the filtering
\* loop of a later run does not take it for transcribed.  (Violated: the
\* output path is made from the base name alone, and a sibling given the
\* same base name writes it.)
C22_FailedItemLeavesNoOutput ==
    \A i \in DOMAIN item :
        /\ item[i].wr # "none" =>
              /\ mono => item[i].sox = "ok"
              /\ item[i].up = "ok"
              /\ item[i].sub = "ok"
        /\ (\/ item[i].sox = "err"
            \/ item[i].up = "err"
            \/ item[i].sub = "err") =>
              Stat(OutPath(item[i].file)) = "ENOENT"

----------------------------------------------------------------------------
\* C23: the filtering loop keeps an argument exactly when os.Stat of its
\* output path reported that the file does not exist; an argument whose
\* check failed in another way is skipped like one already transcribed: no
\* goroutine is launched for it, it is not counted as a failure, and a run
\* in which no argument is kept ends with exit status 0 before any client is
\* made.
C23_OtherStatErrorSkipped ==
    LET kept == {k \in 1..Len(statLog) : statLog[k] = "ENOENT"}
    IN  /\ Len(files) = Cardinality(kept)
        /\ \A j \in 1..Len(files) :
              \E k \in kept : args[k] = files[j]
        /\ \A k \in (1..Len(statLog)) \ kept :
              /\ \A j \in 1..Len(files) : files[j] # args[k]
              /\ \A i \in DOMAIN item : item[i].file # args[k]
        /\ failures <= Cardinality(kept)
        /\ (/\ Len(args) > 0
            /\ Len(statLog) = Len(args)
            /\ mainpc # "filter"
            /\ kept = {}) =>
              /\ mainpc = "exited"
              /\ exitCode = 0
              /\ exitAt = "nothing"
              /\ cl = "none"
              /\ item = <<>>

\* one output path could not be examined, the other argument was
\* transcribed, and the run ended with exit status 0
C23_Witness ==
    /\ statLog = <<"EACCES", "ENOENT">>
    /\ Len(item) = 1
    /\ item[1].file = args[2]
    /\ item[1].wr = "ok"
    /\ failures = 0
    /\ exitAt = "done"
    /\ exitCode = 0

====
